---- MODULE Spec2Model ----
(***************************************************************************)
(* Model of ln2t_tools: the command-line orchestrator that resolves a BIDS *)
(* dataset, selects participants and launches containerised FreeSurfer /   *)
(* fMRIPrep jobs (src/ln2t_tools/ln2t_tools.py, src/ln2t_tools/utils).     *)
(*                                                                         *)
(* Strings are sequences of pieces: everything the code slices, joins or   *)
(* compares piecewise (labels, sessions, runs, directory names) is spelled *)
(* character by character; fixed fragments of a command line are one piece.*)
(* An Optional value is <<>> (None) or <<v>> (the value v).                *)
(***************************************************************************)
EXTENDS Integers, Sequences, FiniteSets, TLC

VARIABLES
    args,             \* the argparse.Namespace handed to main
    pc,               \* position of main
    outcome,          \* "running", "returned", or the exception main re-raised
    rawdata,          \* what setup_directories saw: "unread" / "present" / "absent"
    output_dir,       \* Optional path: output_dir created by setup_directories
    image,            \* what ensure_image_exists saw and did
    apptainer_img,    \* Optional path returned by ensure_image_exists
    license,          \* what check_file_exists saw: "unread" / "present" / "absent"
    requested,        \* Optional sequence: participant_list of line 275
    known,            \* layout.get_subjects() of the BIDSLayout main built
    participant_list, \* the resolved sequence main iterates over
    warned,           \* the entries check_participants_exist called warn() for
    idx,              \* index of the participant the loop is at
    t1w_files,        \* T1w records of the participant being processed
    t1w_idx,          \* index of the T1w image process_freesurfer_subject is at
    checked,          \* Optional record: the last output directory tested with exists()
    passed,           \* the commands handed to launch_apptainer, in order
    os_system,        \* the commands os.system executed, in order
    reported,         \* Optional record: what list_missing_subjects read and logged
    last              \* the last thing main did for a participant, and whether
                      \* the output directory in question was on disk then

vars == <<args, pc, outcome, rawdata, output_dir, image, apptainer_img, license,
          requested, known, participant_list, warned, idx, t1w_files, t1w_idx,
          checked, passed, os_system, reported, last>>

----------------------------------------------------------------------------
(* Bounds of the model *)

\* longest --participant-list
MaxList == 2
\* most T1w images of one participant
MaxT1w == 2
\* most entries of the output directory
MaxEntries == 2

----------------------------------------------------------------------------
(* Strings and Optional values *)

None == <<>>

Some(v) == <<v>>

\* Python truthiness of an Optional string or Optional list
Truthy(o) == o # None /\ o[1] # <<>>

\* Python's  a or b  on Optional values
Or(a, b) == IF Truthy(a) THEN a ELSE b

RECURSIVE Join(_, _)
\* sep.join(parts)
Join(parts, sep) ==
    IF parts = <<>> THEN <<>>
    ELSE IF Len(parts) = 1 THEN parts[1]
    ELSE parts[1] \o sep \o Join(Tail(parts), sep)

\* s.startswith(prefix)
StartsWith(s, prefix) ==
    Len(s) >= Len(prefix) /\ SubSeq(s, 1, Len(prefix)) = prefix

\* s[n:]
SliceFrom(s, n) == SubSeq(s, n + 1, Len(s))

\* code points of the characters that occur in labels
Ord(c) ==
    CASE c = "-" -> 45 [] c = "0" -> 48 [] c = "1" -> 49 [] c = "2" -> 50
      [] c = "9" -> 57 [] c = "A" -> 65 [] c = "_" -> 95 [] c = "e" -> 101
      [] c = "n" -> 110 [] c = "r" -> 114 [] c = "s" -> 115 [] c = "u" -> 117
      [] OTHER -> 0

RECURSIVE StrLess(_, _)
\* a < b on Python strings
StrLess(a, b) ==
    IF b = <<>> THEN FALSE
    ELSE IF a = <<>> THEN TRUE
    ELSE IF Ord(a[1]) # Ord(b[1]) THEN Ord(a[1]) < Ord(b[1])
    ELSE StrLess(Tail(a), Tail(b))

RECURSIVE Sorted(_)
\* sorted(S) for a set of strings
Sorted(S) ==
    IF S = {} THEN <<>>
    ELSE LET m == CHOOSE x \in S : \A y \in S \ {x} : StrLess(x, y)
         IN  <<m>> \o Sorted(S \ {m})

Range(s) == {s[i] : i \in 1..Len(s)}

SeqsUpTo(S, n) == UNION {[1..k -> S] : k \in 0..n}

----------------------------------------------------------------------------
(* defaults.py *)

DEFAULT_RAWDATA == << <<"~">>, <<"rawdata">> >>

DEFAULT_DERIVATIVES == << <<"~">>, <<"derivatives">> >>

DEFAULT_APPTAINER_DIR == << <<"/opt">>, <<"apptainer">> >>

DEFAULT_FS_VERSION == <<"7.3.2">>

DEFAULT_FMRIPREP_VERSION == <<"23.1.3">>

DEFAULT_FS_LICENSE == << <<"/opt">>, <<"freesurfer">>, <<"license.txt">> >>

\* str(path)
PathStr(p) == Join(p, <<"/">>)

----------------------------------------------------------------------------
(* cli.py: the values parse_args can produce *)

FREESURFER == <<"freesurfer">>

FMRIPREP == <<"fmriprep">>

\* choices of the positional argument
Tools == {FREESURFER, FMRIPREP}

\* subject labels of the dataset, and one label no dataset has
Labels == { <<"0", "1">>, <<"0", "2">> }

UnknownLabel == <<"9", "9">>

Sessions == {None, Some(<<"A">>)}

Runs == {None, Some(<<"1">>)}

\* nargs="+": absent, or a non-empty list
ParticipantLists ==
    {None} \cup {Some(l) : l \in SeqsUpTo(Labels \cup {UnknownLabel}, MaxList) \ {<<>>}}

ParticipantLabels == {None, Some(<<"0", "1">>)}

ArgsSet ==
    [tool : Tools,
     dataset : {None, Some(<<"ds">>)},
     participant_label : ParticipantLabels,
     participant_list : ParticipantLists,
     output_label : {None, Some(<<"o", "u", "t">>)},
     fs_license : {DEFAULT_FS_LICENSE},
     apptainer_dir : {DEFAULT_APPTAINER_DIR},
     version : {None, Some(<<"7.4.1">>)},
     list_datasets : BOOLEAN,
     list_missing : BOOLEAN]

----------------------------------------------------------------------------
(* The BIDS index and the directories, as the code reads them *)

\* layout.get_subjects(): the subjects of the index, in index order
SubjectLists == { <<>>, << <<"0", "1">> >>, << <<"0", "2">> >>,
                  << <<"0", "1">>, <<"0", "2">> >> }

\* the entities of one T1w file
T1wRecords == [session : Sessions, run : Runs]

\* layout.get(subject=..., suffix="T1w", ...): the T1w files of one subject
T1wLists == SeqsUpTo(T1wRecords, MaxT1w)

----------------------------------------------------------------------------
(* ln2t_tools.py and utils.py: the pure parts *)

SUB == <<"s", "u", "b", "-">>

\* build_bids_subdir that appends the run before the session
build_bids_subdir_run_first(participant_label, session, run) ==
    LET parts0 == << SUB \o participant_label >>
        parts1 == IF Truthy(run)
                  THEN Append(parts0, <<"r", "u", "n", "-">> \o run[1])
                  ELSE parts0
        parts2 == IF Truthy(session)
                  THEN Append(parts1, <<"s", "e", "s", "-">> \o session[1])
                  ELSE parts1
    IN  Join(parts2, <<"_">>)

\* "_".join(parts) with parts = ["sub-<label>", "ses-<session>"?, "run-<run>"?]
build_bids_subdir(participant_label, session, run) ==
    LET parts0 == << SUB \o participant_label >>
        parts1 == IF Truthy(session)
                  THEN Append(parts0, <<"s", "e", "s", "-">> \o session[1])
                  ELSE parts0
        parts2 == IF Truthy(run)
                  THEN Append(parts1, <<"r", "u", "n", "-">> \o run[1])
                  ELSE parts1
    IN  Join(parts2, <<"_">>)

\* the file name of a T1w image of the raw dataset
T1wPath(dataset_rawdata, participant_label, rec) ==
    PathStr(dataset_rawdata) \o <<"/">> \o SUB \o participant_label
        \o <<"/anat/">>
        \o build_bids_subdir(participant_label, rec.session, rec.run)
        \o <<"_T1w.nii.gz">>

\* subject_id of build_apptainer_cmd, freesurfer branch
subject_id(options) ==
    LET id0 == SUB \o options.participant_label
        id1 == IF Truthy(options.session)
               THEN id0 \o <<"_", "s", "e", "s", "-">> \o options.session[1]
               ELSE id0
    IN  IF Truthy(options.run)
        THEN id1 \o <<"_", "r", "u", "n", "-">> \o options.run[1]
        ELSE id1

\* build_apptainer_cmd(tool, **options): the command line, or the ValueError
build_apptainer_cmd(tool, options) ==
    IF tool = FREESURFER THEN
        <<"apptainer run -B ">> \o PathStr(options.fs_license)
            \o <<":/usr/local/freesurfer/.license ">>
            \o <<"-B ">> \o options.rawdata \o <<":/rawdata -B ">>
            \o options.derivatives \o <<":/derivatives ">>
            \o options.apptainer_img \o <<" recon-all -all -subjid ">>
            \o subject_id(options) \o <<" ">>
            \o <<"-i ">> \o options.t1w \o <<" ">>
            \o <<"-sd /derivatives/">> \o options.output_label \o <<" ">>
    ELSE IF tool = FMRIPREP THEN
        <<"apptainer run -B ">> \o options.rawdata \o <<":/rawdata -B ">>
            \o options.derivatives \o <<":/derivatives ">>
            \o options.apptainer_img
            \o <<" /rawdata /derivatives/">> \o <<"fmriprep">> \o <<" participant ">>
            \o <<"--participant-label ">> \o options.participant_label \o <<" ">>
            \o <<"--output-spaces MNI152NLin2009cAsym:res-2">>
    ELSE <<"ValueError: Unsupported tool">>

\* the default version of a tool (ln2t_tools.py lines 60-61 and 270-271)
default_version(tool) ==
    IF tool = FREESURFER THEN DEFAULT_FS_VERSION ELSE DEFAULT_FMRIPREP_VERSION

\* args.output_label or f"{tool}_{args.version or <default>}"
output_label_of(a, tool) ==
    IF Truthy(a.output_label) THEN a.output_label[1]
    ELSE tool \o <<"_">> \o Or(a.version, Some(default_version(tool)))[1]

\* Path(DEFAULT_RAWDATA) / f"{args.dataset}-rawdata"
dataset_rawdata_of(a) ==
    Append(DEFAULT_RAWDATA, a.dataset[1] \o <<"-rawdata">>)

\* Path(DEFAULT_DERIVATIVES) / f"{args.dataset}-derivatives"
dataset_derivatives_of(a) ==
    Append(DEFAULT_DERIVATIVES, a.dataset[1] \o <<"-derivatives">>)

\* the participant_list expression of main:
\*   (args.participant_list or [args.participant_label])
\*       if args.participant_label else []
requested_participants(a) ==
    IF Truthy(a.participant_label)
    THEN IF Truthy(a.participant_list)
         THEN a.participant_list[1]
         ELSE << a.participant_label[1] >>
    ELSE <<>>

RECURSIVE filter_participants(_, _, _, _)
\* the for loop of check_participants_exist: kept and warned so far
filter_participants(subjects, rest, kept, warns) ==
    IF rest = <<>> THEN [kept |-> kept, warned |-> warns]
    ELSE IF rest[1] \in Range(subjects)
    THEN filter_participants(subjects, Tail(rest), Append(kept, rest[1]), warns)
    ELSE filter_participants(subjects, Tail(rest), kept, Append(warns, rest[1]))

\* check_participants_exist that walks the index instead of the request
check_participants_exist_index_order(subjects, plist) ==
    IF plist = <<>>
    THEN [raised |-> FALSE, result |-> subjects, warned |-> <<>>]
    ELSE LET r == filter_participants(subjects, plist, <<>>, <<>>)
             kept == SelectSeq(subjects, LAMBDA p : p \in Range(plist))
         IN  [raised |-> kept = <<>>, result |-> kept, warned |-> r.warned]

\* check_participants_exist(layout, participant_list)
check_participants_exist(subjects, plist) ==
    IF plist = <<>>
    THEN [raised |-> FALSE, result |-> subjects, warned |-> <<>>]
    ELSE LET r == filter_participants(subjects, plist, <<>>, <<>>)
         IN  [raised |-> r.kept = <<>>, result |-> r.kept, warned |-> r.warned]

\* tool_owner of ensure_image_exists
tool_owner(tool) ==
    IF tool = FREESURFER THEN <<"freesurfer">> ELSE <<"nipreps">>

\* image_path of ensure_image_exists
image_path_of(apptainer_dir, tool, version) ==
    Append(apptainer_dir, tool_owner(tool) \o <<".">> \o tool \o <<".">>
                              \o version \o <<".sif">>)

\* build_cmd of ensure_image_exists
build_cmd_of(image_path, tool, version) ==
    <<"apptainer build ">> \o PathStr(image_path) \o <<" docker://">>
        \o tool_owner(tool) \o <<"/">> \o tool \o <<":">> \o version

\* the test after the build with  and  in place of  or
build_failed_both(result, exists_after) == result # 0 /\ ~exists_after

\* the test after the build:  result != 0 or not image_path.exists()
build_failed(result, exists_after) == result # 0 \/ ~exists_after

\* processed_subjects of list_missing_subjects
processed_subjects(entries) ==
    { SliceFrom(d.name, 4) : d \in {e \in entries : StartsWith(e.name, SUB) /\ e.is_dir} }

\* missing of list_missing_subjects
missing_subjects(raw_subjects, entries) ==
    raw_subjects \ processed_subjects(entries)

----------------------------------------------------------------------------
(* What a directory listing of the output directory can hold *)

\* the entries an output directory can hold: subject directories, a plain
\* file with a subject's name, and a directory that is no subject's
DirEntries ==
    { [name |-> build_bids_subdir(l, s, r), is_dir |-> TRUE] :
          l \in Labels, s \in Sessions, r \in Runs }
    \cup { [name |-> SUB \o <<"0", "2">>, is_dir |-> FALSE],
           [name |-> <<"l", "o", "g", "s">>, is_dir |-> TRUE] }

\* output_dir.glob(...) reads a directory: names are unique in it
Listings ==
    { L \in SUBSET DirEntries :
          /\ Cardinality(L) <= MaxEntries
          /\ \A e1, e2 \in L : e1.name = e2.name => e1 = e2 }

----------------------------------------------------------------------------
(* main *)

NoEvent == [ev |-> "none", subject |-> <<>>, output_exists |-> FALSE]

Init ==
    /\ args \in ArgsSet
    /\ pc = "start"
    /\ outcome = "running"
    /\ rawdata = "unread"
    /\ output_dir = None
    /\ image = [probed |-> FALSE, existed |-> FALSE, result |-> 0, after |-> FALSE]
    /\ apptainer_img = None
    /\ license = "unread"
    /\ requested = None
    /\ known = <<>>
    /\ participant_list = <<>>
    /\ warned = <<>>
    /\ idx = 0
    /\ t1w_files = <<>>
    /\ t1w_idx = 0
    /\ checked = None
    /\ passed = <<>>
    /\ os_system = <<>>
    /\ reported = None
    /\ last = NoEvent

\* main returns normally
Return ==
    /\ pc' = "done"
    /\ outcome' = "returned"

\* an exception reaches the except clause of main, which logs and re-raises it
Raise(exc) ==
    /\ pc' = "done"
    /\ outcome' = exc

\* lines 244-246: --list-datasets; os.listdir raises when the root is missing
ListDatasets ==
    /\ pc = "start"
    /\ args.list_datasets
    /\ \E root_exists \in BOOLEAN :
           IF root_exists THEN Return ELSE Raise("FileNotFoundError")
    /\ UNCHANGED <<args, rawdata, output_dir, image, apptainer_img, license,
                   requested, known, participant_list, warned, idx, t1w_files,
                   t1w_idx, checked, passed, os_system, reported, last>>

\* lines 248-257: no --dataset; the error message lists the root
NoDataset ==
    /\ pc = "start"
    /\ ~args.list_datasets
    /\ ~Truthy(args.dataset)
    /\ \E root_exists \in BOOLEAN :
           IF root_exists THEN Return ELSE Raise("FileNotFoundError")
    /\ UNCHANGED <<args, rawdata, output_dir, image, apptainer_img, license,
                   requested, known, participant_list, warned, idx, t1w_files,
                   t1w_idx, checked, passed, os_system, reported, last>>

\* line 259: setup_directories(args)
SetupDirectories ==
    /\ pc = "start"
    /\ ~args.list_datasets
    /\ Truthy(args.dataset)
    /\ \E exists \in BOOLEAN :
           IF ~exists
           THEN /\ rawdata' = "absent"
                /\ Raise("FileNotFoundError")
                /\ UNCHANGED output_dir
           ELSE /\ rawdata' = "present"
                /\ output_dir' = Some(Append(dataset_derivatives_of(args),
                                             output_label_of(args, args.tool)))
                /\ pc' = "setup_done"
                /\ UNCHANGED outcome
    /\ UNCHANGED <<args, image, apptainer_img, license, requested, known,
                   participant_list, warned, idx, t1w_files, t1w_idx, checked,
                   passed, os_system, reported, last>>

\* lines 261-263: --list-missing, list_missing_subjects(dataset_rawdata, output_dir)
ListMissing ==
    /\ pc = "setup_done"
    /\ args.list_missing
    /\ \E subjects \in SubjectLists, entries \in Listings :
           reported' = Some([raw_subjects |-> Range(subjects),
                             entries |-> entries,
                             lines |-> Sorted(missing_subjects(Range(subjects), entries))])
    /\ Return
    /\ UNCHANGED <<args, rawdata, output_dir, image, apptainer_img, license,
                   requested, known, participant_list, warned, idx, t1w_files,
                   t1w_idx, checked, passed, os_system, last>>

\* main without the return of line 263: it goes on after the listing
CheckApptainer_after_listing ==
    /\ pc = "setup_done"
    /\ \E installed \in BOOLEAN :
           IF installed
           THEN pc' = "image" /\ UNCHANGED outcome
           ELSE Raise("FileNotFoundError")
    /\ UNCHANGED <<args, rawdata, output_dir, image, apptainer_img, license,
                   requested, known, participant_list, warned, idx, t1w_files,
                   t1w_idx, checked, passed, os_system, reported, last>>

\* line 266: check_apptainer_is_installed
CheckApptainer ==
    /\ pc = "setup_done"
    /\ ~args.list_missing
    /\ \E installed \in BOOLEAN :
           IF installed
           THEN pc' = "image" /\ UNCHANGED outcome
           ELSE Raise("FileNotFoundError")
    /\ UNCHANGED <<args, rawdata, output_dir, image, apptainer_img, license,
                   requested, known, participant_list, warned, idx, t1w_files,
                   t1w_idx, checked, passed, os_system, reported, last>>

\* lines 267-272: ensure_image_exists(args.apptainer_dir, args.tool, version)
EnsureImage ==
    /\ pc = "image"
    /\ LET version == Or(args.version, Some(default_version(args.tool)))[1]
           image_path == image_path_of(args.apptainer_dir, args.tool, version)
       IN  \E existed \in BOOLEAN, result \in {0, 1}, after \in BOOLEAN :
               IF existed
               THEN /\ result = 0 /\ after
                    /\ image' = [probed |-> TRUE, existed |-> TRUE,
                                 result |-> 0, after |-> TRUE]
                    /\ apptainer_img' = Some(image_path)
                    /\ pc' = "license"
                    /\ UNCHANGED <<outcome, os_system>>
               ELSE /\ image' = [probed |-> TRUE, existed |-> FALSE,
                                 result |-> result, after |-> after]
                    /\ os_system' = Append(os_system,
                                           build_cmd_of(image_path, args.tool, version))
                    /\ IF build_failed(result, after)
                       THEN Raise("FileNotFoundError") /\ UNCHANGED apptainer_img
                       ELSE /\ apptainer_img' = Some(image_path)
                            /\ pc' = "license"
                            /\ UNCHANGED outcome
    /\ UNCHANGED <<args, rawdata, output_dir, license, requested, known,
                   participant_list, warned, idx, t1w_files, t1w_idx, checked,
                   passed, reported, last>>

\* line 273: check_file_exists(args.fs_license); main drops the returned value
CheckLicense ==
    /\ pc = "license"
    /\ \E isfile \in BOOLEAN :
           license' = IF isfile THEN "present" ELSE "absent"
    /\ pc' = "select"
    /\ UNCHANGED <<args, outcome, rawdata, output_dir, image, apptainer_img,
                   requested, known, participant_list, warned, idx, t1w_files,
                   t1w_idx, checked, passed, os_system, reported, last>>

\* lines 275-276: the requested participants
SelectParticipants ==
    /\ pc = "select"
    /\ requested' = Some(requested_participants(args))
    /\ pc' = "resolve"
    /\ UNCHANGED <<args, outcome, rawdata, output_dir, image, apptainer_img,
                   license, known, participant_list, warned, idx, t1w_files,
                   t1w_idx, checked, passed, os_system, reported, last>>

\* lines 278-279: BIDSLayout(dataset_rawdata), check_participants_exist
ResolveParticipants ==
    /\ pc = "resolve"
    /\ \E subjects \in SubjectLists :
           LET r == check_participants_exist(subjects, requested[1])
           IN  /\ known' = subjects
               /\ warned' = r.warned
               /\ IF r.raised
                  THEN Raise("ValueError") /\ UNCHANGED <<participant_list, idx>>
                  ELSE /\ participant_list' = r.result
                       /\ idx' = 1
                       /\ pc' = "loop"
                       /\ UNCHANGED outcome
    /\ UNCHANGED <<args, rawdata, output_dir, image, apptainer_img, license,
                   requested, t1w_files, t1w_idx, checked, passed, os_system,
                   reported, last>>

\* the for loop of line 281 is exhausted: main returns
LoopDone ==
    /\ pc = "loop"
    /\ idx > Len(participant_list)
    /\ Return
    /\ UNCHANGED <<args, rawdata, output_dir, image, apptainer_img, license,
                   requested, known, participant_list, warned, idx, t1w_files,
                   t1w_idx, checked, passed, os_system, reported, last>>

\* lines 77-89 of process_freesurfer_subject: the T1w query
FreesurferSubject ==
    /\ pc = "loop"
    /\ idx <= Len(participant_list)
    /\ args.tool = FREESURFER
    /\ \E files \in T1wLists :
           IF files = <<>>
           THEN /\ last' = [ev |-> "no_t1w", subject |-> participant_list[idx],
                            output_exists |-> FALSE]
                /\ idx' = idx + 1
                /\ UNCHANGED <<pc, t1w_files, t1w_idx>>
           ELSE /\ last' = [ev |-> "t1w_found", subject |-> participant_list[idx],
                            output_exists |-> FALSE]
                /\ t1w_files' = files
                /\ t1w_idx' = 1
                /\ pc' = "t1w"
                /\ UNCHANGED idx
    /\ UNCHANGED <<args, outcome, rawdata, output_dir, image, apptainer_img,
                   license, requested, known, participant_list, warned, checked,
                   passed, os_system, reported>>

\* launch_apptainer(apptainer_cmd): prints the command, then os.system(build_cmd)
\* names a variable that does not exist, so the call raises NameError
launch_apptainer(apptainer_cmd) ==
    /\ passed' = Append(passed, apptainer_cmd)
    /\ UNCHANGED os_system
    /\ Raise("NameError")

\* process_single_t1w for the image the loop of lines 91-100 is at
SingleT1w ==
    /\ pc = "t1w"
    /\ t1w_idx <= Len(t1w_files)
    /\ LET participant_label == participant_list[idx]
           entities == t1w_files[t1w_idx]
           dataset_rawdata == dataset_rawdata_of(args)
           dataset_derivatives == dataset_derivatives_of(args)
           output_subdir == build_bids_subdir(participant_label,
                                              entities.session, entities.run)
           output_participant_dir ==
               dataset_derivatives \o << output_label_of(args, FREESURFER),
                                         output_subdir >>
           apptainer_cmd ==
               build_apptainer_cmd(FREESURFER,
                   [fs_license |-> args.fs_license,
                    rawdata |-> PathStr(dataset_rawdata),
                    derivatives |-> PathStr(dataset_derivatives),
                    participant_label |-> participant_label,
                    t1w |-> T1wPath(dataset_rawdata, participant_label, entities),
                    apptainer_img |-> PathStr(apptainer_img[1]),
                    output_label |-> output_label_of(args, FREESURFER),
                    session |-> entities.session,
                    run |-> entities.run])
       IN  \E exists \in BOOLEAN :
               /\ checked' = Some([path |-> output_participant_dir, exists |-> exists])
               /\ IF exists
                  THEN /\ last' = [ev |-> "skipped", subject |-> participant_label,
                                   output_exists |-> TRUE]
                       /\ IF t1w_idx < Len(t1w_files)
                          THEN /\ t1w_idx' = t1w_idx + 1
                               /\ UNCHANGED <<pc, idx, t1w_files>>
                          ELSE /\ t1w_idx' = 0
                               /\ t1w_files' = <<>>
                               /\ idx' = idx + 1
                               /\ pc' = "loop"
                       /\ UNCHANGED <<outcome, passed, os_system>>
                  ELSE /\ last' = [ev |-> "launched", subject |-> participant_label,
                                   output_exists |-> FALSE]
                       /\ launch_apptainer(apptainer_cmd)
                       /\ UNCHANGED <<idx, t1w_files, t1w_idx>>
    /\ UNCHANGED <<args, rawdata, output_dir, image, apptainer_img, license,
                   requested, known, participant_list, warned, reported>>

\* process_fmriprep_subject without the early return of line 186
fmriprep_declines_t1w_only(files, has_bold) == files = <<>>

\* lines 173 and 186 of process_fmriprep_subject: the two early returns
fmriprep_declines(files, has_bold) == files = <<>> \/ ~has_bold

\* process_fmriprep_subject: the T1w query, the BOLD query, and the call of
\* get_freesurfer_output, a name the module neither defines nor imports.
\* output_exists is whether <output_dir>/sub-<label> is on disk: the test of
\* line 207 comes after the call of line 192 and is never reached
FmriprepSubject ==
    /\ pc = "loop"
    /\ idx <= Len(participant_list)
    /\ args.tool = FMRIPREP
    /\ \E files \in T1wLists, has_bold \in BOOLEAN, output_exists \in BOOLEAN :
           /\ last' = [ev |-> IF files = <<>> THEN "no_t1w"
                              ELSE IF ~has_bold THEN "no_bold"
                              ELSE "t1w_and_bold",
                       subject |-> participant_list[idx],
                       output_exists |-> output_exists]
           /\ IF fmriprep_declines(files, has_bold)
              THEN /\ idx' = idx + 1
                   /\ UNCHANGED <<pc, outcome>>
              ELSE /\ Raise("NameError")
                   /\ UNCHANGED idx
    /\ UNCHANGED <<args, rawdata, output_dir, image, apptainer_img, license,
                   requested, known, participant_list, warned, t1w_files, t1w_idx,
                   checked, passed, os_system, reported>>

Next ==
    \/ ListDatasets
    \/ NoDataset
    \/ SetupDirectories
    \/ ListMissing
    \/ CheckApptainer
    \/ EnsureImage
    \/ CheckLicense
    \/ SelectParticipants
    \/ ResolveParticipants
    \/ LoopDone
    \/ FreesurferSubject
    \/ SingleT1w
    \/ FmriprepSubject

Spec == Init /\ [][Next]_vars

----------------------------------------------------------------------------
(* The Job Spec Builder on its own: build_apptainer_cmd applied to the      *)
(* options its two callers put together                                     *)

\* what process_single_t1w (lines 128-139) and process_fmriprep_subject
\* (lines 221-234) pass to build_apptainer_cmd; the fmriprep options the
\* builder never reads (fs_no_reconall, output_spaces, nprocs, omp_nthreads,
\* fs_subjects_dir) are left out
caller_options(a, tool, participant_label, entities, img) ==
    [fs_license |-> a.fs_license,
     rawdata |-> PathStr(dataset_rawdata_of(a)),
     derivatives |-> PathStr(dataset_derivatives_of(a)),
     participant_label |-> participant_label,
     t1w |-> T1wPath(dataset_rawdata_of(a), participant_label, entities),
     apptainer_img |-> PathStr(img),
     output_label |-> output_label_of(a, tool),
     session |-> entities.session,
     run |-> entities.run]

\* output_participant_dir of the two callers (lines 119-122 and 201-205)
output_participant_dir_of(a, tool, participant_label, entities) ==
    dataset_derivatives_of(a)
        \o << output_label_of(a, tool),
              IF tool = FREESURFER
              THEN build_bids_subdir(participant_label, entities.session, entities.run)
              ELSE build_bids_subdir(participant_label, None, None) >>

\* a participant with one T1w image, an image file, and no output yet
BuilderInit ==
    /\ args \in {a \in ArgsSet :
                     Truthy(a.dataset) /\ ~a.list_datasets /\ ~a.list_missing}
    /\ pc = "build"
    /\ outcome = "running"
    /\ rawdata = "present"
    /\ output_dir = Some(Append(dataset_derivatives_of(args),
                                output_label_of(args, args.tool)))
    /\ image = [probed |-> TRUE, existed |-> TRUE, result |-> 0, after |-> TRUE]
    /\ apptainer_img =
           Some(image_path_of(args.apptainer_dir, args.tool,
                              Or(args.version, Some(default_version(args.tool)))[1]))
    /\ license = "present"
    /\ requested = Some(requested_participants(args))
    /\ known \in SubjectLists \ {<<>>}
    /\ participant_list \in {<<l>> : l \in Range(known)}
    /\ warned = <<>>
    /\ idx = 1
    /\ t1w_files \in {<<r>> : r \in T1wRecords}
    /\ t1w_idx = 1
    /\ checked = None
    /\ passed = <<>>
    /\ os_system = <<>>
    /\ reported = None
    /\ last = NoEvent

\* the caller finds no output directory and builds the command of its tool
BuildCommand ==
    /\ pc = "build"
    /\ checked' = Some([path |-> output_participant_dir_of(
                                     args, args.tool, participant_list[idx],
                                     t1w_files[t1w_idx]),
                        exists |-> FALSE])
    /\ passed' = << build_apptainer_cmd(args.tool,
                        caller_options(args, args.tool, participant_list[idx],
                                       t1w_files[t1w_idx], apptainer_img[1])) >>
    /\ pc' = "built"
    /\ UNCHANGED <<args, outcome, rawdata, output_dir, image, apptainer_img,
                   license, requested, known, participant_list, warned, idx,
                   t1w_files, t1w_idx, os_system, reported, last>>

BuilderNext == BuildCommand

SpecBuilder == BuilderInit /\ [][BuilderNext]_vars

----------------------------------------------------------------------------
(* Properties *)

\* the label of an output subdirectory name: what follows "sub-", up to the
\* first "_" (the session and run qualifiers are not part of it)
LabelOfDir(name) ==
    LET rest == SliceFrom(name, 4)
        cut == {i \in 1..Len(rest) : rest[i] = "_"}
    IN  IF cut = {} THEN rest
        ELSE SubSeq(rest, 1, (CHOOSE i \in cut : \A j \in cut : i <= j) - 1)

\* the labels that have at least one subdirectory sub-<label>[_ses-..][_run-..]
ProcessedLabels(entries) ==
    { LabelOfDir(e.name) : e \in {d \in entries : d.is_dir /\ StartsWith(d.name, SUB)} }

\* C1: the missing subjects list_missing_subjects reports are exactly the raw
\* subjects whose label has no subdirectory sub-<label>[_ses-<s>][_run-<r>]
\* in the output directory.
C1_MissingIsRawMinusLabels ==
    reported # None =>
        Range(reported[1].lines) =
            reported[1].raw_subjects \ ProcessedLabels(reported[1].entries)

\* C2: the sequence handed to the Participant Resolver is the
\* --participant-list whenever one is given, otherwise the single
\* --participant-label, otherwise empty.
C2_ListWins ==
    requested # None =>
        requested[1] =
            IF args.participant_list # None THEN args.participant_list[1]
            ELSE IF args.participant_label # None THEN << args.participant_label[1] >>
            ELSE <<>>

\* C3: once a job has been handed to launch_apptainer, the batch is not
\* aborted: main does not end by raising, and it ends only after the loop
\* has gone past the last participant.
C3_LaunchNeverAborts ==
    passed # <<>> =>
        /\ outcome \in {"running", "returned"}
        /\ (pc = "done" => idx > Len(participant_list))

\* C4: every command passed to launch_apptainer is executed by os.system
\* exactly once, and launch_apptainer does not raise.
C4_ExecutedExactlyOnce ==
    /\ \A i \in 1..Len(passed) :
           Cardinality({j \in 1..Len(os_system) : os_system[j] = passed[i]}) = 1
    /\ (passed # <<>> => outcome # "NameError")

\* a prerequisite of the run was found missing
SetupError ==
    \/ rawdata = "absent"
    \/ license = "absent"
    \/ (image.probed /\ ~image.existed /\ (image.result # 0 \/ ~image.after))

\* C5: when the raw-data directory or the license file is missing, or the
\* image build fails, no participant is processed, no job is launched, and
\* main does not end normally.
C5_SetupErrorsAbort ==
    SetupError =>
        /\ last = NoEvent
        /\ passed = <<>>
        /\ outcome # "returned"

\* check_participants_exist has run
Resolved == requested # None /\ pc # "resolve"

\* C6: an empty request resolves to the known subjects; a non-empty one to
\* its entries that are known, in request order, with one warning per dropped
\* entry; resolution fails exactly when the request is non-empty and none of
\* its entries is known.
C6_ResolverFilters ==
    Resolved =>
        LET R == requested[1]
            IsKnown(p) == p \in Range(known)
            IsUnknown(p) == p \notin Range(known)
        IN  /\ (outcome = "ValueError") <=>
                   (R # <<>> /\ \A i \in 1..Len(R) : R[i] \notin Range(known))
            /\ (outcome # "ValueError" /\ R = <<>>) =>
                   (participant_list = known /\ warned = <<>>)
            /\ (outcome # "ValueError" /\ R # <<>>) =>
                   participant_list = SelectSeq(R, IsKnown)
            /\ R # <<>> => warned = SelectSeq(R, IsUnknown)

\* C6 witness: a request of two entries, one kept and one dropped with a warning
C6_Witness ==
    /\ Resolved
    /\ pc = "loop"
    /\ Len(requested[1]) = 2
    /\ Len(participant_list) = 1
    /\ Len(warned) = 1

\* the build commands os.system has executed
BuildCalls ==
    {j \in 1..Len(os_system) : os_system[j][1] = "apptainer build "}

\* C7: ensure_image_exists runs the build command once if the image file is
\* absent and never if it exists; after a build it fails if the build exited
\* non-zero or the file is still absent, and otherwise returns the path
\* <apptainer_dir>/<owner>.<tool>.<version>.sif of a file that exists.
C7_BuildIffAbsent ==
    image.probed =>
        /\ Cardinality(BuildCalls) = IF image.existed THEN 0 ELSE 1
        /\ image.existed => apptainer_img # None
        /\ ~image.existed =>
               (apptainer_img = None <=> (image.result # 0 \/ ~image.after))
        /\ apptainer_img = None =>
               (pc = "done" /\ outcome = "FileNotFoundError")
        /\ apptainer_img # None =>
               /\ image.after
               /\ apptainer_img[1][Len(apptainer_img[1])] =
                      (IF args.tool = FREESURFER THEN <<"freesurfer">> ELSE <<"nipreps">>)
                          \o <<".">> \o args.tool \o <<".">>
                          \o (IF args.version # None THEN args.version[1]
                              ELSE IF args.tool = FREESURFER THEN <<"7.3.2">>
                              ELSE <<"23.1.3">>)
                          \o <<".sif">>

\* C7 witness: the image was absent, the build exited 0 but left no file, and
\* the call failed
C7_Witness ==
    /\ image.probed
    /\ ~image.existed
    /\ image.result = 0
    /\ ~image.after
    /\ outcome = "FileNotFoundError"
    /\ Cardinality(BuildCalls) = 1

\* the -subjid argument of a freesurfer command line
SubjidOf(cmd) ==
    LET at == CHOOSE i \in 1..Len(cmd) : cmd[i] = " recon-all -all -subjid "
        ends == {j \in (at + 1)..Len(cmd) : cmd[j] = " "}
        end == CHOOSE j \in ends : \A k \in ends : j <= k
    IN  SubSeq(cmd, at + 1, end - 1)

\* C8: the -subjid of a launched freesurfer command is
\* build_bids_subdir(label, session, run), that is sub-<label>, then
\* _ses-<session> if there is a session, then _run-<run> if there is a run;
\* and it names the directory the skip-if-exists check tested.
C8_SubjidIsBidsSubdir ==
    \A k \in 1..Len(passed) :
        LET label == participant_list[idx]
            e == t1w_files[t1w_idx]
        IN  /\ SubjidOf(passed[k]) = build_bids_subdir(label, e.session, e.run)
            /\ SubjidOf(passed[k]) =
                   <<"s", "u", "b", "-">> \o label
                       \o (IF e.session # None
                           THEN <<"_", "s", "e", "s", "-">> \o e.session[1] ELSE <<>>)
                       \o (IF e.run # None
                           THEN <<"_", "r", "u", "n", "-">> \o e.run[1] ELSE <<>>)
            /\ checked # None
            /\ ~checked[1].exists
            /\ checked[1].path[Len(checked[1].path)] = SubjidOf(passed[k])

\* C8 witness: a freesurfer job was launched for an image with a session and a run
C8_Witness ==
    /\ passed # <<>>
    /\ t1w_files[t1w_idx].session # None
    /\ t1w_files[t1w_idx].run # None

\* C9: when process_fmriprep_subject finds no T1w record or no BOLD record,
\* it hands no command to the launcher, executes nothing, raises nothing,
\* and the participant loop moves on to the next subject.
C9_FmriprepDeclines ==
    [][(/\ pc = "loop"
        /\ args.tool = FMRIPREP
        /\ last' # last
        /\ last'.ev \in {"no_t1w", "no_bold"})
       => (/\ passed' = passed
           /\ os_system' = os_system
           /\ outcome' = "running"
           /\ pc' = "loop"
           /\ idx' = idx + 1)]_vars

\* C9 witness: a subject without BOLD records was declined and the loop is
\* at the next participant
C9_Witness ==
    /\ args.tool = FMRIPREP
    /\ last.ev = "no_bold"
    /\ pc = "loop"
    /\ outcome = "running"
    /\ idx = 2
    /\ Len(participant_list) = 2

\* C10: for a subject with T1w and BOLD records an fmriprep command is built
\* and handed to the launcher (with the FreeSurfer-reuse flag or without it).
C10_FmriprepCommandLaunched ==
    (args.tool = FMRIPREP /\ last.ev = "t1w_and_bold") =>
        /\ passed # <<>>
        /\ passed[Len(passed)][1] = "apptainer run -B "


\* the command names /derivatives/<label> as the directory the job writes to
WritesTo(cmd, label) ==
    \E i \in 1..Len(cmd) :
        /\ cmd[i] \in {"-sd /derivatives/", " /rawdata /derivatives/"}
        /\ i + Len(label) + 1 <= Len(cmd)
        /\ SubSeq(cmd, i + 1, i + Len(label)) = label
        /\ cmd[i + Len(label) + 1] \in {" ", " participant "}

\* C11: for both tools the command built for a job writes to
\* /derivatives/<output_label>, where output_label is --output-label if given
\* and <tool>_<version> otherwise, and that is the directory whose
\* sub-<label>[...] subdirectory the skip-if-exists check tested.
C11_OutputLocation ==
    pc = "built" =>
        LET version == IF args.version # None THEN args.version[1]
                       ELSE IF args.tool = FREESURFER THEN <<"7.3.2">>
                       ELSE <<"23.1.3">>
            label == IF args.output_label # None THEN args.output_label[1]
                     ELSE args.tool \o <<"_">> \o version
            tested == checked[1].path
        IN  /\ WritesTo(passed[1], label)
            /\ tested[Len(tested) - 1] = label
            /\ SubSeq(tested, 1, Len(tested) - 2) = dataset_derivatives_of(args)

\* C11, the freesurfer half alone
C11_FreesurferOutputLocation ==
    (pc = "built" /\ args.tool = FREESURFER) => C11_OutputLocation


\* C12: whenever the output directory of a subject (freesurfer: of a T1w
\* image) already exists, no job is built or launched for it, nothing is
\* raised and processing goes on with the next image or subject; a job is
\* launched only when the directory was absent when tested.
C12_SkipOnExistingOutput ==
    /\ (last.ev # "none" /\ last.output_exists) =>
           /\ passed = <<>>
           /\ outcome \in {"running", "returned"}
           /\ (pc = "done" => idx > Len(participant_list))
    /\ passed # <<>> => (checked # None /\ ~checked[1].exists)

\* C12, the freesurfer half alone
C12_FreesurferSkip ==
    args.tool = FREESURFER => C12_SkipOnExistingOutput


\* the invocation is a listing: --list-datasets, or --list-missing with a
\* dataset whose raw-data directory exists
ListingInvocation ==
    \/ args.list_datasets
    \/ (args.list_missing /\ rawdata = "present")

\* C13: a listing invocation ends after the listing with no image
\* provisioned, no participant resolved and no job launched, whatever the
\* other flags; any other invocation provisions the image at most once, and
\* before the first job is handed to the launcher.
C13_TerminalActions ==
    /\ [](ListingInvocation =>
              /\ ~image.probed /\ apptainer_img = None /\ os_system = <<>>
              /\ requested = None /\ participant_list = <<>>
              /\ passed = <<>> /\ last = NoEvent
              /\ pc \in {"start", "setup_done", "done"}
              /\ (pc = "setup_done" => ~args.list_datasets)
              /\ (pc = "done" /\ ~args.list_datasets) =>
                     (reported # None /\ outcome = "returned"))
    /\ [](Cardinality(BuildCalls) <= 1)
    /\ [][image.probed => (image' = image /\ apptainer_img' = apptainer_img)]_vars
    /\ [][passed' # passed => (image.probed /\ apptainer_img # None)]_vars

\* C13 witness: --list-missing together with a --participant-list ended
\* after the listing, with no image looked for
C13_Witness ==
    /\ args.list_missing
    /\ ~args.list_datasets
    /\ args.participant_list # None
    /\ pc = "done"
    /\ reported # None
    /\ ~image.probed

====
